---- MODULE Spec2Model ----
(***************************************************************************)
(* Event-study engine of tradepal-ai (backend/utils/event_study.py) and    *)
(* the secondary price source it falls back to                             *)
(* (backend/utils/stock_data.py, get_historical_price_range).              *)
(*                                                                         *)
(* Dates are day numbers (a pd.Timestamp at midnight; strftime('%Y-%m-%d') *)
(* followed by pd.to_datetime is exact on them).  Prices are integers in   *)
(* thousandths of a currency unit, so that round(x, 2) of the secondary    *)
(* source is a real rounding.  Returns are exact rationals <<n, d>>.       *)
(***************************************************************************)
EXTENDS Integers, Sequences, FiniteSets, TLC

VARIABLES
    ticker,             \* fetch_prices argument
    start,              \* fetch_prices argument (day number)
    end,                \* fetch_prices argument (day number)
    today,              \* the wall clock of the providers
    market,             \* what the exchange really traded: day -> bar
    use_alpha_vantage,  \* StockDataService.use_alpha_vantage
    pc,                 \* position inside fetch_prices
    attempt,            \* loop variable of Method 2
    current_start,      \* loop variable of Method 3
    all_prices,         \* accumulator of Method 3
    calls,              \* log of provider calls and sleeps, in order
    result,             \* the DataFrame returned (a sequence of rows) or None
    raised,             \* the ValueError raised, or None
    report,             \* what run_event_study returned, or None
    event_date,         \* event_window_return / get_trading_date_index argument
    other_date,         \* a second target date, for comparing alignments
    window,             \* event_window_return argument <<start_offset, end_offset>>
    scale,              \* a positive constant every close is multiplied by
    wpc,                \* which of the window functions has been applied
    aligned,            \* get_trading_date_index of event_date and of other_date
    cum_return,         \* event_window_return on the series
    scaled_return,      \* event_window_return on the scaled series
    arr,                \* bootstrap_pvals argument, then arr[~np.isnan(arr)]
    nboot,              \* bootstrap_pvals argument
    boot_means,         \* the resample means drawn so far
    p_value,            \* what bootstrap_pvals returned
    bpc,                \* position inside bootstrap_pvals
    arg_start_date,     \* run_event_study argument, as the caller passed it
    arg_end_date,       \* run_event_study argument, as the caller passed it (or None)
    holidays,           \* run_event_study argument: <<[name, dates]>> in dict order
    windows,            \* run_event_study argument: a list of <<start, end>> offsets
    spc,                \* position inside run_event_study
    fetched,            \* the fetch_prices calls made so far: <<start, end>> each
    ei,                 \* how many (holiday, date) pairs the event loop has passed
    event_rows,         \* the rows list of run_event_study
    pvals,              \* the pvals list of run_event_study
    windows_param,      \* get_event_study: the windows query parameter (characters) or None
    rpc,                \* position inside the route handler get_event_study
    response,           \* the HTTP response of get_event_study, or None
    suspended,          \* the locals of a second, suspended invocation, or None
    running             \* which invocation of run_event_study holds the processor

inputs == <<ticker, start, end, today, market, use_alpha_vantage>>
fetchVars == <<pc, attempt, current_start, all_prices, calls, result, raised, report>>
windowVars == <<event_date, other_date, window, scale, wpc, aligned, cum_return,
                scaled_return>>
bootVars == <<arr, nboot, boot_means, p_value, bpc>>
studyVars == <<arg_start_date, arg_end_date, holidays, windows, spc, fetched, ei,
               event_rows, pvals>>

routeVars == <<windows_param, rpc, response>>
threadVars == <<suspended, running>>
callerVars == <<routeVars, threadVars>>

vars == <<inputs, fetchVars, windowVars, bootVars, studyVars, callerVars>>

\* run_event_study is called directly, by one caller
CallerIdle ==
    /\ windows_param = <<>>
    /\ rpc = "idle"
    /\ response = <<>>
    /\ suspended = <<>>
    /\ running = 1


\* an Optional value: None, or Some(v)
None == <<>>
Some(v) == <<v>>

-----------------------------------------------------------------------------
(* Bounds of the model *)

\* days 1..NearDays and chunk_size+1..chunk_size+NearDays can be trading days
NearDays == 3
\* at most this many bars in the market
MaxBars == 3

-----------------------------------------------------------------------------
(* Program constants *)

chunk_size == 365
PeriodLimit == 365
RetrySleep == 2

-----------------------------------------------------------------------------
(* Generic helpers *)

Min(a, b) == IF a <= b THEN a ELSE b

SetMin(S) == CHOOSE x \in S : \A y \in S : x <= y

RECURSIVE AscSeq(_)
\* the elements of a finite set of integers, ascending
AscSeq(S) == IF S = {} THEN <<>> ELSE <<SetMin(S)>> \o AscSeq(S \ {SetMin(S)})

RECURSIVE Reverse(_)
\* list.reverse()
Reverse(s) == IF s = <<>> THEN <<>> ELSE Reverse(Tail(s)) \o <<Head(s)>>

Abs(x) == IF x < 0 THEN -x ELSE x

RECURSIVE Gcd(_, _)
Gcd(a, b) == IF b = 0 THEN a ELSE Gcd(b, a % b)

\* the rational n/d in lowest terms with a positive denominator (d # 0)
Rat(n, d) ==
    LET g == Gcd(Abs(n), Abs(d))
        s == IF d < 0 THEN -1 ELSE 1
    IN  <<(s * n) \div g, (s * d) \div g>>

\* round(x, 2) on a price held in thousandths: nearest hundredth, ties to even
Round2(x) ==
    LET q == x \div 10
        r == x % 10
    IN  IF r < 5 THEN 10 * q
        ELSE IF r > 5 THEN 10 * (q + 1)
        ELSE IF q % 2 = 0 THEN 10 * q ELSE 10 * (q + 1)

-----------------------------------------------------------------------------
(* The providers: yfinance (primary) and StockDataService (secondary) *)

\* the days that may be trading days
Days == (1 .. NearDays) \cup ((chunk_size + 1) .. (chunk_size + NearDays))

\* rows of a yfinance frame for the trading days in [lo, hi], oldest first
HistRows(m, lo, hi) ==
    LET ds == AscSeq({d \in DOMAIN m : lo <= d /\ d <= hi})
    IN  [i \in 1 .. Len(ds) |->
            [date |-> ds[i], Close |-> m[ds[i]].close, AdjClose |-> m[ds[i]].adj]]

\* df[(df.index >= lo) & (df.index <= hi)]
FilterRows(df, lo, hi) == SelectSeq(df, LAMBDA r : lo <= r.date /\ r.date <= hi)

\* the span of calendar days a yfinance period bucket reaches back from today
PeriodSpan(period) ==
    CASE period = "5d" -> 5
      [] period = "1mo" -> 30
      [] period = "3mo" -> 90
      [] period = "6mo" -> 180
      [] OTHER -> 365

\* the period bucket fetch_prices picks for a span of days_diff days
PeriodFor(days_diff) ==
    IF days_diff <= 5 THEN "5d"
    ELSE IF days_diff <= 30 THEN "1mo"
    ELSE IF days_diff <= 90 THEN "3mo"
    ELSE IF days_diff <= 180 THEN "6mo"
    ELSE "1y"

\* Series.pct_change() at position i (1-based) of a sequence of prices
PctChange(ps, i) ==
    IF i = 1 THEN "NaN"
    ELSE IF ps[i - 1] = 0 THEN (IF ps[i] = 0 THEN "NaN" ELSE "inf")
    ELSE Rat(ps[i] - ps[i - 1], ps[i - 1])

\* a frame indexed by date with columns price and ret, rows in the order given
PriceFrame(ds, ps) ==
    [i \in 1 .. Len(ds) |-> [date |-> ds[i], price |-> ps[i], ret |-> PctChange(ps, i)]]

\* df[[col]].rename(columns={col: 'price'}); df['ret'] = df['price'].pct_change()
FrameOfRows(df, col) ==
    PriceFrame([i \in 1 .. Len(df) |-> df[i].date],
               [i \in 1 .. Len(df) |-> IF col = "Adj Close" THEN df[i].AdjClose
                                       ELSE df[i].Close])

\* the entries of the secondary source's "prices" list for the rows of a frame
PriceDicts(df) ==
    [i \in 1 .. Len(df) |-> [date |-> df[i].date, close |-> Round2(df[i].Close)]]

\* StockDataService.get_historical_price_range(symbol, start_date, end_date):
\* alpha_ok says whether the Alpha Vantage request delivered a time series,
\* yf is what yfinance's history() did ("ok", "empty" or "raise").
get_historical_price_range(m, now, use_alpha, start_date, end_date, alpha_ok, yf) ==
    LET in_range == HistRows(m, start_date, end_date)
        alpha_prices ==
            IF use_alpha /\ alpha_ok
            THEN Reverse(PriceDicts(in_range))      \* sorted(), then reverse()
            ELSE <<>>                               \* None: as falsy as []
        hist0 == IF yf = "ok" THEN in_range ELSE <<>>
        hist == IF hist0 = <<>> /\ yf = "ok"
                THEN HistRows(m, start_date - 10, end_date)
                ELSE hist0
        yf_prices == PriceDicts(FilterRows(hist, start_date, end_date))
        prices == IF alpha_prices # <<>> /\ Len(alpha_prices) >= Len(yf_prices)
                  THEN alpha_prices ELSE yf_prices
    IN  IF start_date > end_date THEN [error |-> "Start date must be before end date."]
        ELSE IF end_date > now THEN [error |-> "End date cannot be in the future."]
        ELSE IF end_date - start_date > 365
             THEN [error |-> "Date range cannot exceed 365 days."]
        ELSE IF yf = "raise" THEN [error |-> "Failed to fetch historical stock data range"]
        ELSE IF hist = <<>> THEN [error |-> "No trading data available"]
        \* no row in range but older rows: len(prices) < days with days = None
        ELSE IF yf_prices = <<>> THEN [error |-> "Failed to fetch historical stock data range"]
        ELSE [prices |-> Reverse(prices)]

\* 'prices' in price_data and price_data['prices']
HasPrices(price_data) == "prices" \in DOMAIN price_data /\ price_data.prices # <<>>

-----------------------------------------------------------------------------
(* EventStudyService.fetch_prices *)

LogCall(c) == Append(calls, c)

\* NoDataError naming the chunk loop's position instead of the start asked for
NoDataErrorChunk == [ticker |-> ticker, start |-> current_start, end |-> end]

\* the ValueError of fetch_prices: its message names ticker, start and end
NoDataError == [ticker |-> ticker, start |-> start, end |-> end]

\* the frame Method 3 builds from all_prices
FrameOfPrices(ap) ==
    PriceFrame([i \in 1 .. Len(ap) |-> ap[i].date], [i \in 1 .. Len(ap) |-> ap[i].price])

\* the rows Method 3 appends for one chunk's price_data
ChunkRows(price_data) ==
    IF HasPrices(price_data)
    THEN [i \in 1 .. Len(price_data.prices) |->
            [date |-> price_data.prices[i].date, price |-> price_data.prices[i].close]]
    ELSE <<>>

Return(df, how) ==
    /\ result' = Some(df)
    /\ pc' = how
    /\ UNCHANGED <<raised, attempt, current_start, all_prices>>

\* Method 1: the period bucket, filtered to [start, end]
Method1Period ==
    /\ pc = "m1"
    /\ end - start <= PeriodLimit
    /\ \E resp \in {"raise", "empty", "nocols", "ok"} :
        LET period == PeriodFor(end - start)
            df == IF resp \in {"ok", "nocols"}
                  THEN HistRows(market, today - PeriodSpan(period), today) ELSE <<>>
            kept == FilterRows(df, start, end)
        IN  /\ calls' = LogCall([op |-> "history", period |-> period])
            /\ IF resp = "ok" /\ kept # <<>>
               THEN Return(FrameOfRows(kept, "Close"), "done1")
               ELSE /\ pc' = "m2"
                    /\ UNCHANGED <<result, raised, attempt, current_start, all_prices>>
    /\ UNCHANGED <<inputs, callerVars, studyVars, report, windowVars, bootVars>>

\* Method 1 is skipped for spans over a year
Method1Skip ==
    /\ pc = "m1"
    /\ end - start > PeriodLimit
    /\ pc' = "m2"
    /\ UNCHANGED <<inputs, callerVars, studyVars, report, windowVars, bootVars, attempt,
                   current_start, all_prices, calls, result, raised>>

\* AfterAttempt falling through to Method 3 after the first failed attempt
AfterAttemptNoRetry(log) ==
    /\ result' = None
    /\ raised' = None
    /\ attempt' = attempt
    /\ pc' = "m3"
    /\ calls' = log
    /\ current_start' = start
    /\ all_prices' = <<>>

\* where Method 2 goes after a failed attempt
AfterAttempt(log) ==
    /\ result' = None
    /\ raised' = None
    /\ IF attempt < 1
       THEN /\ attempt' = attempt + 1
            /\ pc' = "m2"
            /\ calls' = log
            /\ UNCHANGED <<current_start, all_prices>>
       ELSE /\ attempt' = attempt
            /\ pc' = "m3"
            /\ calls' = log
            /\ current_start' = start
            /\ all_prices' = <<>>

\* Method 2: one attempt of yf.download(ticker, start=start, end=end)
Method2Download ==
    /\ pc = "m2"
    /\ \E resp \in {"raise", "empty", "ok"}, cols \in {"Adj Close", "Close", "none"} :
        LET df == IF resp = "ok" THEN HistRows(market, start, end - 1) ELSE <<>>
            log == LogCall([op |-> "download", start |-> start, end |-> end])
            slept == IF attempt < 1
                     THEN Append(log, [op |-> "sleep", seconds |-> RetrySleep])
                     ELSE log
        IN  IF resp = "raise" THEN AfterAttempt(slept)
            ELSE IF df = <<>> THEN AfterAttempt(slept)
            ELSE IF cols = "none" THEN AfterAttempt(log)         \* continue
            ELSE /\ calls' = log
                 /\ Return(FrameOfRows(df, cols), "done2")
    /\ UNCHANGED <<inputs, callerVars, studyVars, report, windowVars, bootVars>>

\* Method3Chunk giving up what it has collected when a chunk brings no bars
Method3ChunkDiscard ==
    /\ pc = "m3"
    /\ current_start < end
    /\ \E alpha_ok \in BOOLEAN, yf \in {"ok", "empty", "raise"} :
        LET current_end == Min(current_start + chunk_size, end)
            price_data == get_historical_price_range(market, today, use_alpha_vantage,
                              current_start, current_end, alpha_ok, yf)
        IN  /\ calls' = LogCall([op |-> "range", start |-> current_start,
                                 end |-> current_end])
            /\ all_prices' = IF HasPrices(price_data)
                             THEN all_prices \o ChunkRows(price_data)
                             ELSE <<>>
            /\ current_start' = current_end + 1
    /\ UNCHANGED <<inputs, callerVars, studyVars, report, windowVars, bootVars, pc, attempt,
                   result, raised>>

\* Method 3: one chunk fetched from stock_data_service
Method3Chunk ==
    /\ pc = "m3"
    /\ current_start < end
    /\ \E alpha_ok \in BOOLEAN, yf \in {"ok", "empty", "raise"} :
        LET current_end == Min(current_start + chunk_size, end)
            price_data == get_historical_price_range(market, today, use_alpha_vantage,
                              current_start, current_end, alpha_ok, yf)
        IN  /\ calls' = LogCall([op |-> "range", start |-> current_start,
                                 end |-> current_end])
            /\ all_prices' = all_prices \o ChunkRows(price_data)
            /\ current_start' = current_end + 1
    /\ UNCHANGED <<inputs, callerVars, studyVars, report, windowVars, bootVars, pc, attempt,
                   result, raised>>

\* Method 3: the loop is over and rows were collected
Method3Return ==
    /\ pc = "m3"
    /\ ~(current_start < end)
    /\ all_prices # <<>>
    /\ Return(FrameOfPrices(all_prices), "done3")
    /\ UNCHANGED <<inputs, callerVars, studyVars, report, windowVars, bootVars, calls>>

\* all methods failed
RaiseNoData ==
    /\ pc = "m3"
    /\ ~(current_start < end)
    /\ all_prices = <<>>
    /\ raised' = Some(NoDataError)
    /\ pc' = "raised"
    /\ UNCHANGED <<inputs, callerVars, studyVars, report, windowVars, bootVars, attempt,
                   current_start, all_prices, calls, result>>

\* the except clause returning the error together with report fields
run_event_study_except_partial ==
    /\ pc = "raised"
    /\ start <= end
    /\ report' = Some([error |-> <<"Failed to run event study: ", raised[1]>>,
                       symbol |-> ticker, events |-> <<>>])
    /\ pc' = "reported"
    /\ spc' = "returned"
    /\ UNCHANGED <<inputs, callerVars, attempt, current_start, all_prices, calls, result, raised,
                   windowVars, bootVars, arg_start_date, arg_end_date, holidays,
                   windows, fetched, ei, event_rows, pvals>>

\* run_event_study: fetch_prices raised inside its try block (it is reached only
\* with start_dt <= end_dt); the except clause returns a dict with one key
run_event_study_except ==
    /\ pc = "raised"
    /\ start <= end
    /\ report' = Some([error |-> <<"Failed to run event study: ", raised[1]>>])
    /\ pc' = "reported"
    /\ spc' = "returned"
    /\ UNCHANGED <<inputs, callerVars, attempt, current_start, all_prices, calls, result, raised,
                   windowVars, bootVars, arg_start_date, arg_end_date, holidays,
                   windows, fetched, ei, event_rows, pvals>>

fetch_prices ==
    \/ Method1Period
    \/ Method1Skip
    \/ Method2Download
    \/ Method3Chunk
    \/ Method3Return
    \/ RaiseNoData

-----------------------------------------------------------------------------
(* Specification of fetch_prices *)

\* the window functions and the bootstrap are not running
WindowIdle ==
    /\ event_date = None
    /\ other_date = None
    /\ window = None
    /\ scale = None
    /\ wpc = "idle"
    /\ aligned = None
    /\ cum_return = None
    /\ scaled_return = None

BootIdle ==
    /\ arr = <<>>
    /\ nboot = 0
    /\ boot_means = <<>>
    /\ p_value = None
    /\ bpc = "idle"

\* run_event_study is not running
StudyIdle ==
    /\ arg_start_date = start
    /\ arg_end_date = Some(end)
    /\ holidays = <<>>
    /\ windows = <<>>
    /\ spc = "idle"
    /\ fetched = <<>>
    /\ ei = 0
    /\ event_rows = <<>>
    /\ pvals = <<>>

\* fetch_prices(ticker, start, end) has been called: by run_event_study when
\* start <= end (it returns before the call otherwise), directly if not
StudyFetching ==
    /\ arg_start_date = start
    /\ arg_end_date = Some(end)
    /\ holidays = <<>>
    /\ windows = <<>>
    /\ spc = IF start <= end THEN "fetch" ELSE "idle"
    /\ fetched = IF start <= end THEN <<<<start, end>>>> ELSE <<>>
    /\ ei = 0
    /\ event_rows = <<>>
    /\ pvals = <<>>

Tickers == {"SPY"}

\* the markets: at most MaxBars trading days among Days
DaySets == {S \in SUBSET Days : Cardinality(S) <= MaxBars}

\* the close of a day in the markets of the fetch specification
BarOfDay(d) ==
    IF d % 3 = 0 THEN [close |-> 1004, adj |-> 996]
    ELSE IF d % 3 = 1 THEN [close |-> 1015, adj |-> 1015]
    ELSE [close |-> 2005, adj |-> 2001]

FetchMarkets == {[d \in S |-> BarOfDay(d)] : S \in DaySets}

\* fetch_prices has just been called
FetchInit ==
    /\ ticker \in Tickers
    /\ start \in Days
    /\ end \in Days
    /\ today \in {chunk_size + NearDays - 1, chunk_size + NearDays}
    /\ market \in FetchMarkets
    /\ use_alpha_vantage \in BOOLEAN
    /\ pc = "m1"
    /\ attempt = 0
    /\ current_start = None
    /\ all_prices = <<>>
    /\ calls = <<>>
    /\ result = None
    /\ raised = None
    /\ report = None

Init ==
    /\ FetchInit
    /\ WindowIdle
    /\ BootIdle
    /\ StudyFetching
    /\ CallerIdle

Next == fetch_prices \/ run_event_study_except

Spec == Init /\ [][Next]_vars

-----------------------------------------------------------------------------
(* Properties of fetch_prices *)

Done == {"done1", "done2", "done3"}

\* how many calls of one kind the log holds
Count(op) == Cardinality({i \in DOMAIN calls : calls[i].op = op})

\* the strategy a logged call belongs to
Rank(op) ==
    CASE op = "history" -> 1
      [] op = "download" -> 2
      [] op = "sleep" -> 2
      [] op = "range" -> 3

\* C1: the strategies run in the order period bucket, exact range, chunked
\* secondary source; a later strategy's provider is called only after every
\* earlier strategy has ended without an accepted result (the period bucket
\* when the span allows it, both download attempts), and the call that
\* produced the returned series is the last call made.
C1_StrategyOrder ==
    /\ \A i, j \in DOMAIN calls : i < j => Rank(calls[i].op) <= Rank(calls[j].op)
    /\ Count("history") <= 1
    /\ Count("download") <= 2
    /\ (Count("download") > 0 /\ end - start <= PeriodLimit) => calls[1].op = "history"
    /\ Count("range") > 0 => Count("download") = 2
    /\ pc = "m3" => Count("download") = 2
    /\ (result # None) <=> (pc \in Done)
    /\ pc = "done1" => calls[Len(calls)].op = "history"
    /\ pc = "done2" => calls[Len(calls)].op = "download"
    /\ pc = "done3" => calls[Len(calls)].op = "range" /\ Count("download") = 2

\* the chunked source answered after the period bucket and both downloads failed
C1_Witness ==
    /\ pc = "done3"
    /\ Count("history") = 1
    /\ Count("download") = 2
    /\ Count("range") >= 1

\* C2: fetch_prices raises exactly when all three strategies ended without
\* a result; the error names the ticker and the start and end it was called
\* with, and run_event_study returns it as a dict whose only key is 'error'.
C2_DataUnavailable ==
    /\ pc \in Done => raised = None /\ result # None /\ result[1] # <<>>
    /\ raised # None <=> pc \in {"raised", "reported"}
    /\ pc \in {"raised", "reported"} =>
        /\ result = None
        /\ raised = Some([ticker |-> ticker, start |-> start, end |-> end])
        /\ Count("download") = 2
        /\ end - start <= PeriodLimit => Count("history") = 1
        /\ all_prices = <<>>
        /\ ~(current_start < end)
    /\ (pc = "m3" /\ ~(current_start < end) /\ all_prices = <<>>) => ENABLED RaiseNoData
    /\ (pc = "raised" /\ start <= end) => ENABLED run_event_study_except
    /\ pc = "reported" => DOMAIN report[1] = {"error"} /\ report[1].error[2] = raised[1]
    /\ report # None => pc = "reported"

\* every chunk of a two-chunk range was asked for, none answered, and
\* run_event_study returned the error
C2_Witness ==
    /\ pc = "reported"
    /\ Count("range") = 2
    /\ report[1].error[2] = [ticker |-> ticker, start |-> start, end |-> end]
    /\ DOMAIN market # {}

\* C3: the series fetch_prices returns has strictly ascending dates (so no
\* date twice), whichever strategy produced it.
C3_SortedUnique ==
    pc \in Done =>
        \A i \in 1 .. Len(result[1]) - 1 : result[1][i].date < result[1][i + 1].date

-----------------------------------------------------------------------------
(* Trading-calendar alignment and window returns *)

\* exact rational arithmetic on <<n, d>>
RMul(x, y) == Rat(x[1] * y[1], x[2] * y[2])
RDiv(x, y) == Rat(x[1] * y[2], x[2] * y[1])
RSub(x, y) == Rat(x[1] * y[2] - y[1] * x[2], x[2] * y[2])
One == <<1, 1>>

\* what a float-valued function gave: a number, NaN, inf, or an exception
Num(x) == [kind |-> "num", val |-> x]
NaN == [kind |-> "nan", val |-> <<0, 1>>]
Inf == [kind |-> "inf", val |-> <<0, 1>>]
Raises == [kind |-> "raise", val |-> <<0, 1>>]
NotScalar == [kind |-> "series", val |-> <<0, 1>>]

\* prices_df.index
IndexOf(df) == [i \in 1 .. Len(df) |-> df[i].date]

\* prices_df['price'], a float column
PriceColumn(df) == [i \in 1 .. Len(df) |-> [date |-> df[i].date, price |-> <<df[i].price, 1>>]]

\* the price column with every price multiplied by the positive constant k
ScaledColumn(df, k) ==
    [i \in 1 .. Len(df) |-> [date |-> df[i].date, price |-> RMul(<<df[i].price, 1>>, k)]]

\* EventStudyService.get_trading_date_index
get_trading_date_index(ts_index, target_date) ==
    LET d == target_date
        earlier == SelectSeq(ts_index, LAMBDA x : x <= d)
    IN  IF \E i \in DOMAIN ts_index : ts_index[i] = d THEN Some(d)
        ELSE IF Len(earlier) = 0 THEN None
        ELSE Some(earlier[Len(earlier)])

\* price_series.loc[date]: the prices of the rows labelled date
Loc(price_series, date) ==
    LET rows == SelectSeq(price_series, LAMBDA r : r.date = date)
    IN  [i \in 1 .. Len(rows) |-> rows[i].price]

\* calc_cumret returning the price difference instead of the ratio
calc_cumret_diff(price_series, start_date, end_date) ==
    LET p0 == Loc(price_series, start_date)
        p1 == Loc(price_series, end_date)
    IN  IF p0 = <<>> \/ p1 = <<>> THEN NaN
        ELSE IF Len(p0) > 1 THEN Raises
        ELSE IF p0[1][1] = 0 THEN NaN
        ELSE IF Len(p1) > 1 THEN NotScalar
        ELSE Num(RSub(p1[1], p0[1]))

\* calc_cumret returning p1 / p0, the "- 1.0" forgotten
calc_cumret_ratio(price_series, start_date, end_date) ==
    LET p0 == Loc(price_series, start_date)
        p1 == Loc(price_series, end_date)
    IN  IF p0 = <<>> \/ p1 = <<>> THEN NaN
        ELSE IF Len(p0) > 1 THEN Raises
        ELSE IF p0[1][1] = 0 THEN NaN
        ELSE IF Len(p1) > 1 THEN NotScalar
        ELSE Num(RDiv(p1[1], p0[1]))

\* calc_cumret without the p0 == 0 guard: numpy division by zero
calc_cumret_noguard(price_series, start_date, end_date) ==
    LET p0 == Loc(price_series, start_date)
        p1 == Loc(price_series, end_date)
    IN  IF p0 = <<>> \/ p1 = <<>> THEN NaN
        ELSE IF Len(p0) > 1 THEN Raises
        ELSE IF Len(p1) > 1 THEN NotScalar
        ELSE IF p0[1][1] = 0 THEN (IF p1[1][1] = 0 THEN NaN ELSE Inf)
        ELSE Num(RSub(RDiv(p1[1], p0[1]), One))

\* EventStudyService.calc_cumret; a label that occurs twice makes .loc return a
\* Series: "if p0 == 0" on a Series raises ValueError, and a Series p1 makes the
\* result a Series
calc_cumret(price_series, start_date, end_date) ==
    LET p0 == Loc(price_series, start_date)
        p1 == Loc(price_series, end_date)
    IN  IF p0 = <<>> \/ p1 = <<>> THEN NaN
        ELSE IF Len(p0) > 1 THEN Raises
        ELSE IF p0[1][1] = 0 THEN NaN
        ELSE IF Len(p1) > 1 THEN NotScalar
        ELSE Num(RSub(RDiv(p1[1], p0[1]), One))

\* event_window_return with the offsets applied to the raw event date
event_window_return_raw(idx, price_series, event_date_str, w) ==
    LET ev_trade == get_trading_date_index(idx, event_date_str)
        start_trade == get_trading_date_index(idx, event_date_str + w[1])
        end_trade == get_trading_date_index(idx, event_date_str + w[2])
    IN  IF ev_trade = None THEN NaN
        ELSE IF start_trade = None \/ end_trade = None THEN NaN
        ELSE calc_cumret(price_series, start_trade[1], end_trade[1])

\* EventStudyService.event_window_return, on the index and the price column
event_window_return(idx, price_series, event_date_str, w) ==
    LET ev_trade == get_trading_date_index(idx, event_date_str)
        start_dt == ev_trade[1] + w[1]
        end_dt == ev_trade[1] + w[2]
        start_trade == get_trading_date_index(idx, start_dt)
        end_trade == get_trading_date_index(idx, end_dt)
    IN  IF ev_trade = None THEN NaN
        ELSE IF start_trade = None \/ end_trade = None THEN NaN
        ELSE calc_cumret(price_series, start_trade[1], end_trade[1])

-----------------------------------------------------------------------------
(* Specification of the window functions: the frame is one fetch_prices can  *)
(* return, the event dates, windows and scale factors are drawn from small   *)
(* sets                                                                      *)

\* days 1..CalendarDays can be trading days of the frame
CalendarDays == 4

\* a bar's close and adjusted close, in thousandths
BarValues == {[close |-> 300000, adj |-> 297000], [close |-> 303000, adj |-> 303000],
              [close |-> 0, adj |-> 0]}

WindowMarkets ==
    UNION {[S -> BarValues] :
             S \in {T \in SUBSET (1 .. CalendarDays) : Cardinality(T) <= MaxBars}}

\* the strategy that answered, and what the provider served
Sources == {"period", "download Adj Close", "download Close", "range alpha", "range yf"}

\* the frame fetch_prices(ticker, s, e) returns when the strategy `how` is the
\* first to answer, the providers serving the market m on day now
FetchedFrame(m, now, s, e, how) ==
    CASE how = "period" ->
            FrameOfRows(FilterRows(HistRows(m, now - PeriodSpan(PeriodFor(e - s)), now),
                                   s, e), "Close")
      [] how = "download Adj Close" -> FrameOfRows(HistRows(m, s, e - 1), "Adj Close")
      [] how = "download Close" -> FrameOfRows(HistRows(m, s, e - 1), "Close")
      [] how = "range alpha" ->
            FrameOfPrices(ChunkRows(
                get_historical_price_range(m, now, TRUE, s, e, TRUE, "ok")))
      [] how = "range yf" ->
            FrameOfPrices(ChunkRows(
                get_historical_price_range(m, now, FALSE, s, e, FALSE, "ok")))

DoneOf(how) ==
    CASE how = "period" -> "done1"
      [] how \in {"download Adj Close", "download Close"} -> "done2"
      [] OTHER -> "done3"

\* the target dates handed to the window functions
TargetDates == 0 .. (CalendarDays + 2)

\* DEFAULT_WINDOWS and a few more
DEFAULT_WINDOWS == {<<-5, 5>>, <<-1, 1>>, <<0, 1>>}
WindowChoices == DEFAULT_WINDOWS \cup {<<0, 0>>, <<0, 3>>, <<-1, 0>>, <<1, 2>>, <<2, -1>>}

\* positive constants, as rationals
Scales == {<<2, 1>>, <<1, 2>>, <<3, 1>>}

Frame == result[1]

WindowInit ==
    /\ ticker \in Tickers
    /\ start = 1
    /\ end = CalendarDays + 1
    /\ today = CalendarDays + 1
    /\ market \in WindowMarkets
    /\ \E how \in Sources :
        /\ use_alpha_vantage = (how = "range alpha")
        /\ pc = DoneOf(how)
        /\ FetchedFrame(market, today, start, end, how) # <<>>
        /\ result = Some(FetchedFrame(market, today, start, end, how))
    /\ attempt = 0
    /\ current_start = None
    /\ all_prices = <<>>
    /\ calls = <<>>
    /\ raised = None
    /\ report = None
    /\ event_date = None
    /\ other_date = None
    /\ window = None
    /\ scale = None
    /\ wpc = "input"
    /\ aligned = None
    /\ cum_return = None
    /\ scaled_return = None
    /\ BootIdle
    /\ StudyFetching
    /\ CallerIdle

\* get_trading_date_index applied to two target dates
Align ==
    /\ wpc = "input"
    /\ pc \in {"done1", "done2", "done3"}
    /\ \E d1 \in TargetDates, d2 \in TargetDates :
        /\ event_date' = d1
        /\ other_date' = d2
        /\ aligned' = <<get_trading_date_index(IndexOf(Frame), d1),
                        get_trading_date_index(IndexOf(Frame), d2)>>
    /\ wpc' = "aligned"
    /\ UNCHANGED <<inputs, callerVars, studyVars, fetchVars, bootVars, window, scale, cum_return,
                   scaled_return>>

\* event_window_return applied to the frame, and to the frame with every close
\* multiplied by a positive constant
WindowReturn ==
    /\ wpc = "input"
    /\ \E d \in TargetDates, w \in WindowChoices, k \in Scales :
        /\ event_date' = d
        /\ window' = w
        /\ scale' = k
        /\ cum_return' = event_window_return(IndexOf(Frame), PriceColumn(Frame), d, w)
        /\ scaled_return' = event_window_return(IndexOf(Frame), ScaledColumn(Frame, k), d, w)
    /\ wpc' = "returned"
    /\ UNCHANGED <<inputs, callerVars, studyVars, fetchVars, bootVars, other_date, aligned>>

WindowNext == Align \/ WindowReturn

SpecWindow == WindowInit /\ [][WindowNext]_vars

-----------------------------------------------------------------------------
(* Specification of fetch_prices followed by get_trading_date_index on the   *)
(* frame it returned                                                         *)

AlignInit ==
    /\ FetchInit
    /\ event_date = None
    /\ other_date = None
    /\ window = None
    /\ scale = None
    /\ wpc = "input"
    /\ aligned = None
    /\ cum_return = None
    /\ scaled_return = None
    /\ BootIdle
    /\ StudyFetching
    /\ CallerIdle

AlignNext == fetch_prices \/ Align

SpecAlign == AlignInit /\ [][AlignNext]_vars

-----------------------------------------------------------------------------
(* Properties of get_trading_date_index and event_window_return *)

SetMax(S) == CHOOSE x \in S : \A y \in S : y <= x

\* the dates of the frame
SeriesDates == {Frame[i].date : i \in DOMAIN Frame}

\* the price of the frame's bar on day d
PriceOn(d) == (CHOOSE r \in {Frame[i] : i \in DOMAIN Frame} : r.date = d).price

\* the anchor trading day of the event date, and the two ends of the window
AnchorDay == get_trading_date_index(IndexOf(Frame), event_date)
WindowStart == get_trading_date_index(IndexOf(Frame), AnchorDay[1] + window[1])
WindowEnd == get_trading_date_index(IndexOf(Frame), AnchorDay[1] + window[2])

\* C4: get_trading_date_index returns the greatest date of the series that is
\* <= the target (the target itself when it is a date of the series), and
\* None exactly when the target precedes every date of the series.
C4_GreatestOnOrBefore ==
    wpc = "aligned" =>
        LET S == {x \in SeriesDates : x <= event_date}
        IN  aligned[1] = (IF S = {} THEN None ELSE Some(SetMax(S)))

\* C5: alignment is monotonic: for target dates d1 <= d2 that both align,
\* the aligned date of d1 is <= the aligned date of d2.
C5_Monotonic ==
    (wpc = "aligned" /\ event_date <= other_date
        /\ aligned[1] # None /\ aligned[2] # None)
    => aligned[1][1] <= aligned[2][1]

\* C6: event_window_return measures from align(anchor + start_offset) to
\* align(anchor + end_offset) with anchor = align(event_date), and returns
\* close[end] / close[start] - 1; bars 300 and 303 three days apart, the
\* event on the day after the first bar and the window (0, 3) give 0.01.
C6_OffsetsFromAnchor ==
    wpc = "returned" =>
        /\ (AnchorDay # None /\ WindowStart # None /\ WindowEnd # None
                /\ PriceOn(WindowStart[1]) # 0)
            => cum_return = Num(Rat(PriceOn(WindowEnd[1]) - PriceOn(WindowStart[1]),
                                    PriceOn(WindowStart[1])))
        /\ (SeriesDates = {1, 4} /\ PriceOn(1) = 300000 /\ PriceOn(4) = 303000
                /\ event_date = 2 /\ window = <<0, 3>>)
            => cum_return = Num(<<1, 100>>)

\* the worked scenario: the event falls on a day without a bar
C6_Witness ==
    /\ wpc = "returned"
    /\ SeriesDates = {1, 4}
    /\ PriceOn(1) = 300000
    /\ PriceOn(4) = 303000
    /\ event_date = 2
    /\ window = <<0, 3>>
    /\ AnchorDay = Some(1)
    /\ WindowEnd = Some(4)
    /\ cum_return = Num(<<1, 100>>)

C8_ZeroWidth ==
    (wpc = "returned" /\ window = <<0, 0>> /\ AnchorDay # None
        /\ PriceOn(AnchorDay[1]) # 0)
    => cum_return = Num(<<0, 1>>)

\* a zero-width window on an event date that is not a trading day
C8_Witness ==
    /\ wpc = "returned"
    /\ window = <<0, 0>>
    /\ AnchorDay # None
    /\ AnchorDay[1] # event_date
    /\ PriceOn(AnchorDay[1]) # 0
    /\ cum_return = Num(<<0, 1>>)

-----------------------------------------------------------------------------
(* EventStudyService.bootstrap_pvals *)

\* longest array handed to bootstrap_pvals
MaxArr == 3
\* largest nboot
MaxBoot == 3

\* an entry of the array: NaN (None) or a return Some(v), v in whole units
ArrEntries == {None, Some(-1), Some(0), Some(2)}

RECURSIVE SumSeq(_)
SumSeq(xs) == IF xs = <<>> THEN 0 ELSE Head(xs) + SumSeq(Tail(xs))

\* np.mean of a non-empty sequence of numbers
Mean(xs) == Rat(SumSeq(xs), Len(xs))

RAbs(x) == <<Abs(x[1]), x[2]>>
RGeq(x, y) == x[1] * y[2] >= y[1] * x[2]

\* arr[~np.isnan(arr)]
DropNan(xs) ==
    LET kept == SelectSeq(xs, LAMBDA e : e # None)
    IN  [i \in 1 .. Len(kept) |-> kept[i][1]]

\* np.random.choice(arr, size=len(arr), replace=True): the possible draws
Resamples(xs) == {[i \in 1 .. Len(xs) |-> xs[pick[i]]] : pick \in [1 .. Len(xs) -> 1 .. Len(xs)]}

\* Extreme counting only the resample means strictly beyond the observed mean
ExtremeStrict(xs, means) ==
    Cardinality({i \in DOMAIN means :
                   ~RGeq(RAbs(Mean(xs)), RAbs(means[i]))})

\* how many resample means are at least as extreme as the observed mean
Extreme(xs, means) == Cardinality({i \in DOMAIN means : RGeq(RAbs(means[i]), RAbs(Mean(xs)))})

\* the p-value with the count divided by the sample size instead of nboot
PValueBySampleSize(xs, means) ==
    IF means = <<>> THEN NaN ELSE Num(Rat(Extreme(xs, means), Len(xs)))

\* np.mean(np.abs(boot_means) >= abs(obs)); the mean of an empty array is nan
PValue(xs, means) ==
    IF means = <<>> THEN NaN ELSE Num(Rat(Extreme(xs, means), Len(means)))

\* BootDrop returning nan for an empty array only (len(arr) < 1)
BootDropBelowOne ==
    /\ bpc = "call"
    /\ arr' = DropNan(arr)
    /\ IF Len(DropNan(arr)) < 1
       THEN p_value' = NaN /\ bpc' = "returned"
       ELSE p_value' = p_value /\ bpc' = "loop"
    /\ UNCHANGED <<inputs, callerVars, studyVars, fetchVars, windowVars, nboot, boot_means>>

\* missing entries are dropped; fewer than 2 values left give nan
BootDrop ==
    /\ bpc = "call"
    /\ arr' = DropNan(arr)
    /\ IF Len(DropNan(arr)) < 2
       THEN p_value' = NaN /\ bpc' = "returned"
       ELSE p_value' = p_value /\ bpc' = "loop"
    /\ UNCHANGED <<inputs, callerVars, studyVars, fetchVars, windowVars, nboot, boot_means>>

\* one iteration of the resampling loop
BootResample ==
    /\ bpc = "loop"
    /\ Len(boot_means) < nboot
    /\ \E samp \in Resamples(arr) : boot_means' = Append(boot_means, Mean(samp))
    /\ UNCHANGED <<inputs, callerVars, studyVars, fetchVars, windowVars, arr, nboot, p_value, bpc>>

\* the loop is over: the two-sided p-value
BootReturn ==
    /\ bpc = "loop"
    /\ ~(Len(boot_means) < nboot)
    /\ p_value' = PValue(arr, boot_means)
    /\ bpc' = "returned"
    /\ UNCHANGED <<inputs, callerVars, studyVars, fetchVars, windowVars, arr, nboot, boot_means>>

bootstrap_pvals == BootDrop \/ BootResample \/ BootReturn

RECURSIVE SeqsUpTo(_, _)
\* the sequences over S of length at most n
SeqsUpTo(S, n) ==
    IF n = 0 THEN {<<>>}
    ELSE SeqsUpTo(S, n - 1) \cup {Append(xs, e) : xs \in {ys \in SeqsUpTo(S, n - 1) : Len(ys) = n - 1}, e \in S}

BootInit ==
    /\ ticker \in Tickers
    /\ start = 1
    /\ end = 1
    /\ today = 1
    /\ market = <<>>
    /\ use_alpha_vantage = FALSE
    /\ pc = "idle"
    /\ attempt = 0
    /\ current_start = None
    /\ all_prices = <<>>
    /\ calls = <<>>
    /\ result = None
    /\ raised = None
    /\ report = None
    /\ WindowIdle
    /\ arr \in SeqsUpTo(ArrEntries, MaxArr)
    /\ nboot \in 0 .. MaxBoot
    /\ boot_means = <<>>
    /\ p_value = None
    /\ bpc = "call"
    /\ StudyIdle
    /\ CallerIdle

BootNext == bootstrap_pvals

SpecBoot == BootInit /\ [][BootNext]_vars

-----------------------------------------------------------------------------
(* Properties of bootstrap_pvals *)

\* C10: bootstrap_pvals never raises; it returns NaN or a p with 0 <= p <= 1,
\* p being the fraction of the nboot resample means whose absolute value is
\* at least the absolute observed mean.
C10_BootstrapRange ==
    bpc = "returned" =>
        /\ p_value.kind \in {"num", "nan"}
        /\ p_value.kind = "num" =>
            /\ 0 <= p_value.val[1]
            /\ p_value.val[1] <= p_value.val[2]
            /\ Len(boot_means) = nboot
            /\ LET hits == {i \in 1 .. nboot :
                              Abs(boot_means[i][1]) * Len(arr)
                                  >= Abs(SumSeq(arr)) * boot_means[i][2]}
               IN  p_value.val = Rat(Cardinality(hits), nboot)

\* some resample means are as extreme as the observed mean and some are not
C10_Witness ==
    /\ bpc = "returned"
    /\ p_value.kind = "num"
    /\ 0 < p_value.val[1]
    /\ p_value.val[1] < p_value.val[2]


\* C11: for an array of two or more entries all equal to one nonzero value,
\* bootstrap_pvals returns exactly 1.0 whatever resamples are drawn (at least
\* one resample being drawn, nboot >= 1).
C11_ConstantArray ==
    (/\ bpc = "returned"
     /\ nboot >= 1
     /\ Len(arr) >= 2
     /\ arr[1] # 0
     /\ \A i \in DOMAIN arr : arr[i] = arr[1])
        => p_value = Num(<<1, 1>>)

\* a constant nonzero array of three entries went through two resamples
C11_Witness ==
    /\ bpc = "returned"
    /\ arr = <<-1, -1, -1>>
    /\ nboot = 2
    /\ Len(boot_means) = 2
    /\ p_value = Num(<<1, 1>>)

\* C12: missing entries are dropped first, and when fewer than 2 values are
\* left (empty array, one element, all but one missing) bootstrap_pvals
\* returns NaN for any nboot, straight from the length test: no resample is
\* drawn.
C12_TooFewValues ==
    (bpc \notin {"idle", "call"} /\ Len(arr) < 2)
        => (/\ bpc = "returned"
            /\ p_value = NaN
            /\ boot_means = <<>>
            /\ \A i \in DOMAIN arr : arr[i] \in Int)

\* one value was left of the array, resamples were asked for, NaN came back
C12_Witness ==
    /\ bpc = "returned"
    /\ Len(arr) = 1
    /\ nboot = MaxBoot
    /\ boot_means = <<>>
    /\ p_value = NaN

-----------------------------------------------------------------------------
(* EventStudyService.run_event_study: the report *)

\* max_range_days
max_range_days == 3650

\* the number of resamples run_event_study asks for is 2000; the model draws
\* this many
StudyNboot == 2

RAdd(x, y) == Rat(x[1] * y[2] + y[1] * x[2], x[2] * y[2])

RECURSIVE RSum(_)
RSum(xs) == IF xs = <<>> THEN <<0, 1>> ELSE RAdd(Head(xs), RSum(Tail(xs)))

RECURSIVE Pow10(_)
Pow10(n) == IF n = 0 THEN 1 ELSE 10 * Pow10(n - 1)

\* the square root of a rational, kept as its radicand and its sign
Sqrt(sign, radicand) == [kind |-> "sqrt", val |-> radicand, sign |-> sign]

\* round(x, nd) of a rational: the nearest multiple of 10^-nd, ties to even
RoundRat(x, nd) ==
    LET n == Abs(x[1]) * Pow10(nd)
        q == n \div x[2]
        r == n % x[2]
        up == IF 2 * r > x[2] THEN 1
              ELSE IF 2 * r < x[2] THEN 0
              ELSE q % 2
        sgn == IF x[1] < 0 THEN -1 ELSE 1
    IN  Rat(sgn * (q + up), Pow10(nd))

\* round(v, nd) if not pd.isna(v) else None
RoundOrNone(v, nd) ==
    IF v.kind = "nan" THEN None
    ELSE IF v.kind = "num" THEN Some(Num(RoundRat(v.val, nd)))
    ELSE IF v.kind = "inf" THEN Some(Inf)
    ELSE Some([kind |-> "rounded", digits |-> nd, of |-> v])

\* f"{w[0]}..{w[1]}"
WindowLabel(w) == <<w[1], "..", w[2]>>

\* ticker.upper()
Upper(t) == IF t = "spy" THEN "SPY" ELSE t

RECURSIVE EventPairs(_)
\* the (holiday_name, d) pairs in the order the two outer loops visit them
EventPairs(hs) ==
    IF hs = <<>> THEN <<>>
    ELSE [i \in 1 .. Len(Head(hs).dates) |->
            [holiday |-> Head(hs).name, d |-> Head(hs).dates[i]]]
         \o EventPairs(Tail(hs))

\* not (event_date < prices.index[0] or event_date > prices.index[-1])
InDataRange(df, d) == ~(d < df[1].date \/ d > df[Len(df)].date)

\* the rows the inner loop appends for one event date
WindowRows(df, h, d, ws) ==
    [i \in 1 .. Len(ws) |->
        [holiday |-> h, event_date |-> d, window |-> WindowLabel(ws[i]),
         cum_return |-> event_window_return(IndexOf(df), PriceColumn(df), d, ws[i])]]

\* a row whose cum_return is not a float: event_window_return raised, or the
\* value is a Series and astype(float) raises
Throws(rs) == \E i \in DOMAIN rs : rs[i].cum_return.kind \in {"raise", "series"}

\* the holiday names of the model, ascending as Python orders strings:
\* groupby sorts its keys
HolidayNames == <<"Eid_al_Fitr", "Yom_Kippur">>

PosIn(seq, x) == CHOOSE i \in DOMAIN seq : seq[i] = x

\* the character codes of str(n) for n >= 0
RECURSIVE DecimalCodes(_)
DecimalCodes(n) ==
    IF n < 10 THEN <<48 + n>> ELSE DecimalCodes(n \div 10) \o <<48 + (n % 10)>>

\* the character codes of str(n)
StrCodes(n) == IF n < 0 THEN <<45>> \o DecimalCodes(0 - n) ELSE DecimalCodes(n)

\* the character codes of the window label f"{w[0]}..{w[1]}"
LabelCodes(l) == StrCodes(l[1]) \o <<46, 46>> \o StrCodes(l[3])

\* a <= b for two strings, as Python compares them
RECURSIVE LexLeq(_, _)
LexLeq(a, b) ==
    IF a = <<>> THEN TRUE
    ELSE IF b = <<>> THEN FALSE
    ELSE IF a[1] # b[1] THEN a[1] < b[1]
    ELSE LexLeq(Tail(a), Tail(b))

\* x <= y for two (holiday, window) keys
KeyLeq(x, y) ==
    \/ PosIn(HolidayNames, x[1]) < PosIn(HolidayNames, y[1])
    \/ x[1] = y[1] /\ LexLeq(LabelCodes(x[2]), LabelCodes(y[2]))

RECURSIVE SortedKeys(_)
SortedKeys(K) ==
    IF K = {} THEN <<>>
    ELSE LET k == CHOOSE x \in K : \A y \in K : KeyLeq(x, y)
         IN  <<k>> \o SortedKeys(K \ {k})

\* the keys of df_events.groupby(['holiday', 'window']), in its order
GroupKeys(rs) == SortedKeys({<<rs[i].holiday, rs[i].window>> : i \in DOMAIN rs})

\* grp['cum_return'].values
GroupValues(rs, k) ==
    LET grp == SelectSeq(rs, LAMBDA r : r.holiday = k[1] /\ r.window = k[2])
    IN  [i \in 1 .. Len(grp) |-> grp[i].cum_return]

\* the values pandas counts and averages: NaN is skipped
NotNa(vals) ==
    LET kept == SelectSeq(vals, LAMBDA v : v.kind # "nan")
    IN  [i \in 1 .. Len(kept) |-> kept[i].val]

\* agg 'mean'
AggMean(vals) ==
    LET xs == NotNa(vals)
    IN  IF xs = <<>> THEN NaN
        ELSE LET t == RSum(xs) IN Num(Rat(t[1], t[2] * Len(xs)))

\* the sample variance (N - 1 denominator) of two or more values
Variance(xs) ==
    LET t == RSum(xs)
        mu == Rat(t[1], t[2] * Len(xs))
        sq == [i \in 1 .. Len(xs) |-> RMul(RSub(xs[i], mu), RSub(xs[i], mu))]
        ss == RSum(sq)
    IN  Rat(ss[1], ss[2] * (Len(xs) - 1))

\* agg 'std'
AggStd(vals) ==
    LET xs == NotNa(vals)
    IN  IF Len(xs) <= 1 THEN NaN ELSE Sqrt(1, Variance(xs))

\* summary['mean'] / (summary['std'] / np.sqrt(summary['count'])): float
\* division, a zero denominator gives inf or NaN
TStat(vals) ==
    LET mean == AggMean(vals)
        std == AggStd(vals)
        count == Len(NotNa(vals))
    IN  IF mean.kind = "nan" \/ std.kind = "nan" THEN NaN
        ELSE IF std.val[1] = 0 THEN (IF mean.val[1] = 0 THEN NaN ELSE Inf)
        ELSE Sqrt(IF mean.val[1] < 0 THEN -1 ELSE IF mean.val[1] = 0 THEN 0 ELSE 1,
                  RDiv(RMul(RMul(mean.val, mean.val), <<count, 1>>), std.val))

RECURSIVE DenProduct(_)
DenProduct(xs) == IF xs = <<>> THEN 1 ELSE Head(xs)[2] * DenProduct(Tail(xs))

\* the values of a group on a common denominator: the comparison of absolute
\* means in bootstrap_pvals is the same on them
OnCommonDenominator(xs) ==
    [i \in 1 .. Len(xs) |-> xs[i][1] * (DenProduct(xs) \div xs[i][2])]

\* what bootstrap_pvals(vals, nboot=n) can return, over all the resamples
BootstrapOutcomes(vals, n) ==
    LET xs == OnCommonDenominator(NotNa(vals))
    IN  IF Len(xs) < 2 THEN {NaN}
        ELSE {PValue(xs, means) : means \in [1 .. n -> {Mean(samp) : samp \in Resamples(xs)}]}

\* PvalEntry with n = len(grp), the missing observations counted too
PvalEntryLen(k, vals, p) ==
    [holiday |-> k[1], window |-> k[2], bootstrap_p |-> p, n |-> Len(vals)]

\* the entry the bootstrap loop appends to pvals for one group
PvalEntry(k, vals, p) ==
    [holiday |-> k[1], window |-> k[2], bootstrap_p |-> p, n |-> Len(NotNa(vals))]

\* summary.merge(pvals_df) on holiday and window, then the rounding loop: one
\* record for every pair of a summary row and a pvals entry with the same key
SummaryList(rs, pv) ==
    LET keys == GroupKeys(rs)
        pairs == {<<i, j>> \in (DOMAIN keys) \X (DOMAIN pv) :
                     pv[j].holiday = keys[i][1] /\ pv[j].window = keys[i][2]}
        RECURSIVE Listed(_)
        Listed(P) ==
            IF P = {} THEN <<>>
            ELSE LET q == CHOOSE x \in P : \A y \in P :
                               x[1] < y[1] \/ (x[1] = y[1] /\ x[2] <= y[2])
                     vals == GroupValues(rs, keys[q[1]])
                 IN  <<[holiday |-> keys[q[1]][1],
                        window |-> keys[q[1]][2],
                        count |-> Len(NotNa(vals)),
                        mean |-> RoundOrNone(AggMean(vals), 6),
                        std |-> RoundOrNone(AggStd(vals), 6),
                        t_stat |-> RoundOrNone(TStat(vals), 4),
                        bootstrap_p |-> RoundOrNone(pv[q[2]].bootstrap_p, 4),
                        n |-> pv[q[2]].n]>> \o Listed(P \ {q})
    IN  Listed(pairs)

\* events_list with cum_return rounded, None for NaN
EventsList(rs) ==
    [i \in 1 .. Len(rs) |->
        [holiday |-> rs[i].holiday, event_date |-> rs[i].event_date,
         window |-> rs[i].window, cum_return |-> RoundOrNone(rs[i].cum_return, 6)]]

\* the except clause: {"error": f"Failed to run event study: {str(e)}"}
Failed(e) == [error |-> <<"Failed to run event study: ", e>>]

-----------------------------------------------------------------------------
(* EventStudyService.run_event_study: the steps *)

\* StudyValidate without the start_dt > end_dt test
StudyValidateUnchecked ==
    /\ spc = "call"
    /\ start' = IF end - start > max_range_days THEN end - max_range_days ELSE start
    /\ pc' = "m1"
    /\ fetched' = Append(fetched, <<start', end>>)
    /\ spc' = "fetch"
    /\ UNCHANGED <<callerVars, ticker, end, today, market, use_alpha_vantage, attempt, current_start,
                   all_prices, calls, result, raised, report, windowVars, bootVars,
                   arg_start_date, arg_end_date, holidays, windows, ei, event_rows, pvals>>

\* StudyValidate without the clamp: the span is fetched as asked
StudyValidateNoClamp ==
    /\ spc = "call"
    /\ IF start > end
       THEN /\ report' = Some([error |-> <<"Invalid date range: start_date must be before end_date",
                                           start, end>>])
            /\ spc' = "returned"
            /\ UNCHANGED <<start, pc, fetched>>
       ELSE /\ start' = start
            /\ pc' = "m1"
            /\ fetched' = Append(fetched, <<start', end>>)
            /\ spc' = "fetch"
            /\ UNCHANGED report
    /\ UNCHANGED <<callerVars, ticker, end, today, market, use_alpha_vantage, attempt, current_start,
                   all_prices, calls, result, raised, windowVars, bootVars,
                   arg_start_date, arg_end_date, holidays, windows, ei, event_rows, pvals>>

\* the date validation, the clamp to max_range_days and the call of fetch_prices
StudyValidate ==
    /\ spc = "call"
    /\ IF start > end
       THEN /\ report' = Some([error |-> <<"Invalid date range: start_date must be before end_date",
                                           start, end>>])
            /\ spc' = "returned"
            /\ UNCHANGED <<start, pc, fetched>>
       ELSE /\ start' = IF end - start > max_range_days THEN end - max_range_days ELSE start
            /\ pc' = "m1"
            /\ fetched' = Append(fetched, <<start', end>>)
            /\ spc' = "fetch"
            /\ UNCHANGED report
    /\ UNCHANGED <<callerVars, ticker, end, today, market, use_alpha_vantage, attempt, current_start,
                   all_prices, calls, result, raised, windowVars, bootVars,
                   arg_start_date, arg_end_date, holidays, windows, ei, event_rows, pvals>>

\* fetch_prices returned: the prices.empty test
StudyFetched ==
    /\ spc = "fetch"
    /\ pc \in {"done1", "done2", "done3"}
    /\ IF Frame = <<>>
       THEN /\ report' = Some([error |-> <<"No price data available", ticker, start, end>>])
            /\ spc' = "returned"
       ELSE /\ spc' = "events"
            /\ UNCHANGED report
    /\ UNCHANGED <<inputs, callerVars, attempt, current_start, all_prices, calls, result, raised, pc,
                   windowVars, bootVars, arg_start_date, arg_end_date, holidays,
                   windows, fetched, ei, event_rows, pvals>>

\* StudyEvent fetching the prices again for every event date
StudyEventRefetch ==
    /\ spc = "events"
    /\ ei < Len(EventPairs(holidays))
    /\ LET e == EventPairs(holidays)[ei + 1]
           new == IF InDataRange(Frame, e.d)
                  THEN WindowRows(Frame, e.holiday, e.d, windows)
                  ELSE <<>>
       IN  /\ fetched' = Append(fetched, <<e.d, e.d>>)
           /\ calls' = LogCall([op |-> "download", start |-> e.d, end |-> e.d])
           /\ IF Throws(new)
              THEN /\ report' = Some(Failed("event_window_return"))
                   /\ spc' = "returned"
                   /\ UNCHANGED <<ei, event_rows>>
              ELSE /\ event_rows' = event_rows \o new
                   /\ ei' = ei + 1
                   /\ UNCHANGED <<report, spc>>
    /\ UNCHANGED <<inputs, callerVars, attempt, current_start, all_prices, result, raised, pc,
                   windowVars, bootVars, arg_start_date, arg_end_date, holidays,
                   windows, pvals>>

\* the event loop, one (holiday_name, d) at a time: a date outside the data
\* range is skipped, the others get one row per window; an exception (also the
\* one astype(float) raises on a row that holds a Series) ends in the except
\* clause
StudyEvent ==
    /\ spc = "events"
    /\ ei < Len(EventPairs(holidays))
    /\ LET e == EventPairs(holidays)[ei + 1]
           new == IF InDataRange(Frame, e.d)
                  THEN WindowRows(Frame, e.holiday, e.d, windows)
                  ELSE <<>>
       IN  IF Throws(new)
           THEN /\ report' = Some(Failed("event_window_return"))
                /\ spc' = "returned"
                /\ UNCHANGED <<ei, event_rows>>
           ELSE /\ event_rows' = event_rows \o new
                /\ ei' = ei + 1
                /\ UNCHANGED <<report, spc>>
    /\ UNCHANGED <<inputs, callerVars, attempt, current_start, all_prices, calls, result, raised, pc,
                   windowVars, bootVars, arg_start_date, arg_end_date, holidays,
                   windows, fetched, pvals>>

\* StudyEventsDone without the "if not rows" test
StudyEventsDoneAnyway ==
    /\ spc = "events"
    /\ ~(ei < Len(EventPairs(holidays)))
    /\ spc' = "groups"
    /\ UNCHANGED <<inputs, callerVars, fetchVars, windowVars, bootVars, arg_start_date, arg_end_date,
                   holidays, windows, fetched, ei, event_rows, pvals>>

\* the event loop is over: "if not rows", else on to the groups
StudyEventsDone ==
    /\ spc = "events"
    /\ ~(ei < Len(EventPairs(holidays)))
    /\ IF event_rows = <<>>
       THEN /\ report' = Some([error |-> "No events found in the specified date range"])
            /\ spc' = "returned"
       ELSE /\ spc' = "groups"
            /\ UNCHANGED report
    /\ UNCHANGED <<inputs, callerVars, attempt, current_start, all_prices, calls, result, raised, pc,
                   windowVars, bootVars, arg_start_date, arg_end_date, holidays,
                   windows, fetched, ei, event_rows, pvals>>

\* the bootstrap loop, one group at a time
StudyGroup ==
    /\ spc = "groups"
    /\ Len(pvals) < Len(GroupKeys(event_rows))
    /\ LET k == GroupKeys(event_rows)[Len(pvals) + 1]
           vals == GroupValues(event_rows, k)
       IN  \E p \in BootstrapOutcomes(vals, StudyNboot) :
               pvals' = Append(pvals, PvalEntry(k, vals, p))
    /\ UNCHANGED <<inputs, callerVars, fetchVars, windowVars, bootVars, arg_start_date, arg_end_date,
                   holidays, windows, spc, fetched, ei, event_rows>>

\* the merge, the rounding and the return of the report
StudyReturn ==
    /\ spc = "groups"
    /\ ~(Len(pvals) < Len(GroupKeys(event_rows)))
    /\ report' = Some([symbol |-> Upper(ticker),
                       start_date |-> start,
                       end_date |-> end,
                       summary |-> SummaryList(event_rows, pvals),
                       events |-> EventsList(event_rows),
                       timestamp |-> today])
    /\ spc' = "returned"
    /\ UNCHANGED <<inputs, callerVars, attempt, current_start, all_prices, calls, result, raised, pc,
                   windowVars, bootVars, arg_start_date, arg_end_date, holidays,
                   windows, fetched, ei, event_rows, pvals>>

run_event_study ==
    \/ StudyValidate
    \/ StudyFetched
    \/ StudyEvent
    \/ StudyEventsDone
    \/ StudyGroup
    \/ StudyReturn
    \/ run_event_study_except

-----------------------------------------------------------------------------
(* Specification of run_event_study: the call, fetch_prices inside it, the   *)
(* event loop, the bootstrap loop, the report                                *)

StudyTickers == {"spy"}

\* the bar of a trading day in the markets of this specification; one close
\* is zero
StudyBar(d) ==
    IF d % 4 = 2 THEN [close |-> 200000, adj |-> 200000]
    ELSE IF d % 4 = 3 THEN [close |-> 0, adj |-> 0]
    ELSE [close |-> 100000, adj |-> 100000]

\* a trading day more than one chunk after the others
FarDay == chunk_size + CalendarDays

StudyMarkets ==
    {[d \in S |-> StudyBar(d)] :
        S \in {T \in SUBSET ((1 .. CalendarDays) \cup {FarDay}) :
                 Cardinality(T \ {FarDay}) <= MaxBars}}

\* start_date, end_date (None: today) and the day of the call: a short range,
\* a range to today, start after end, a span of max_range_days + 1 days and
\* one of exactly max_range_days
StudyRequests ==
    {[start_date |-> 1, end_date |-> Some(CalendarDays), today |-> CalendarDays],
     [start_date |-> 2, end_date |-> None, today |-> CalendarDays + 1],
     [start_date |-> 3, end_date |-> Some(1), today |-> CalendarDays],
     [start_date |-> 1, end_date |-> Some(max_range_days + 2), today |-> max_range_days + 2],
     [start_date |-> 1, end_date |-> Some(max_range_days + 1), today |-> max_range_days + 1]}

\* the holidays argument: names with their dates, in dict order
HolidayChoices ==
    {<<[name |-> "Yom_Kippur", dates |-> <<1>>]>>,
     <<[name |-> "Yom_Kippur", dates |-> <<1, 2, CalendarDays>>]>>,
     <<[name |-> "Yom_Kippur", dates |-> <<0, CalendarDays + 2>>]>>,
     <<[name |-> "Eid_al_Fitr", dates |-> <<2, 3>>],
       [name |-> "Yom_Kippur", dates |-> <<1>>]>>,
     <<[name |-> "Yom_Kippur", dates |-> <<1, 2>>],
       [name |-> "Eid_al_Fitr", dates |-> <<3, CalendarDays>>]>>,
     <<[name |-> "Eid_al_Fitr", dates |-> <<CalendarDays>>],
       [name |-> "Yom_Kippur", dates |-> <<0, CalendarDays + 2>>]>>}

\* the windows argument: DEFAULT_WINDOWS and two more lists
WindowLists ==
    {<<<<-5, 5>>, <<-1, 1>>, <<0, 1>>>>,
     <<<<0, 0>>>>,
     <<<<-1, 0>>, <<0, 1>>>>}

\* run_event_study has been called; the defaults of its arguments are resolved
StudyInit ==
    /\ ticker \in StudyTickers
    /\ \E req \in StudyRequests :
        /\ arg_start_date = req.start_date
        /\ arg_end_date = req.end_date
        /\ today = req.today
        /\ start = req.start_date
        /\ end = IF req.end_date = None THEN req.today ELSE req.end_date[1]
    /\ market \in StudyMarkets
    /\ \A d \in DOMAIN market : d <= today
    /\ use_alpha_vantage \in BOOLEAN
    /\ holidays \in HolidayChoices
    /\ windows \in WindowLists
    /\ pc = "idle"
    /\ attempt = 0
    /\ current_start = None
    /\ all_prices = <<>>
    /\ calls = <<>>
    /\ result = None
    /\ raised = None
    /\ report = None
    /\ WindowIdle
    /\ BootIdle
    /\ spc = "call"
    /\ fetched = <<>>
    /\ ei = 0
    /\ event_rows = <<>>
    /\ pvals = <<>>
    /\ CallerIdle

StudyNext == fetch_prices \/ run_event_study

SpecStudy == StudyInit /\ [][StudyNext]_vars

-----------------------------------------------------------------------------
(* Properties of run_event_study *)

\* run_event_study returned a report (not an error)
IsReport == spc = "returned" /\ report # None /\ "summary" \in DOMAIN report[1]

\* run_event_study returned a top-level error
IsError == spc = "returned" /\ report # None /\ "error" \in DOMAIN report[1]

\* the entries of an events list for one (holiday, window) that are not missing
Observed(evs, h, w) ==
    {i \in DOMAIN evs : evs[i].holiday = h /\ evs[i].window = w /\ evs[i].cum_return # None}

\* the (holiday, window) pairs of an events list
PairsOf(evs) == {<<evs[i].holiday, evs[i].window>> : i \in DOMAIN evs}

\* C13: in every report, each summary record's count and n are equal, and
\* equal to the number of entries of the report's events list with the same
\* holiday and window whose cum_return is not missing.
C13_CountIsObserved ==
    IsReport =>
        \A i \in DOMAIN report[1].summary :
            LET rec == report[1].summary[i]
            IN  /\ rec.count = rec.n
                /\ rec.count = Cardinality(Observed(report[1].events, rec.holiday, rec.window))

\* a group of three observations, one of them missing: count = n = 2
C13_Witness ==
    /\ IsReport
    /\ \E i \in DOMAIN report[1].summary :
        LET rec == report[1].summary[i]
        IN  /\ rec.count = 2
            /\ rec.n = 2
            /\ Cardinality({j \in DOMAIN report[1].events :
                               /\ report[1].events[j].holiday = rec.holiday
                               /\ report[1].events[j].window = rec.window}) = 3

\* C14: the summary of a report has exactly one record for each (holiday,
\* window) pair with at least one non-missing observation, and no record for
\* a pair all of whose observations are missing.
C14_OneRecordPerObservedPair ==
    IsReport =>
        LET evs == report[1].events
            summ == report[1].summary
        IN  /\ \A k \in PairsOf(evs) :
                Observed(evs, k[1], k[2]) # {} =>
                    Cardinality({i \in DOMAIN summ :
                                   summ[i].holiday = k[1] /\ summ[i].window = k[2]}) = 1
            /\ \A i \in DOMAIN summ : Observed(evs, summ[i].holiday, summ[i].window) # {}

\* the keys of a complete report
ReportKeys == {"symbol", "start_date", "end_date", "summary", "events", "timestamp"}

\* C15: run_event_study never raises (the exception of fetch_prices is taken
\* by the except clause, which returns; no other step raises), and what
\* it returns is a complete report without an 'error' key or a dict with the
\* 'error' key alone, never an error together with report data.
C15_ReportOrError ==
    /\ spc \in {"call", "fetch", "events", "groups"} => report = None
    /\ (spc = "fetch" /\ pc = "raised") => ENABLED run_event_study_except
    /\ (spc = "fetch" /\ pc \in {"done1", "done2", "done3"}) => ENABLED StudyFetched
    /\ pc = "reported" => IsError
    /\ spc = "returned" =>
          /\ report # None
          /\ DOMAIN report[1] = {"error"} \/ DOMAIN report[1] = ReportKeys

\* the event loop ran over every date, each was skipped, an error came back
C15_Witness ==
    /\ IsError
    /\ DOMAIN report[1] = {"error"}
    /\ pc \in {"done1", "done2", "done3"}
    /\ ei = Len(EventPairs(holidays))
    /\ ei >= 2

\* C16: when start_date is after end_date, run_event_study returns a
\* top-level error and calls no price provider: fetch_prices is not entered.
C16_StartAfterEnd ==
    arg_start_date > end =>
        /\ calls = <<>>
        /\ fetched = <<>>
        /\ pc = "idle"
        /\ spc \in {"call", "returned"}
        /\ spc = "returned" => IsError /\ DOMAIN report[1] = {"error"}

\* the call with start_date after end_date has returned
C16_Witness ==
    /\ arg_start_date > end
    /\ IsError
    /\ calls = <<>>

\* the span asked for is longer than max_range_days
LongSpan == arg_start_date <= end /\ end - arg_start_date > max_range_days

\* C17 as claimed: a span over max_range_days (3650 days) is rejected with an
\* error before any provider call is made.
C17_RejectsLongSpan ==
    LongSpan =>
        /\ calls = <<>>
        /\ fetched = <<>>
        /\ spc = "returned" => IsError

\* C17 as amended: a span over max_range_days is not rejected; before any
\* provider call start_date is moved to end_date - max_range_days,
\* fetch_prices is called once for the clamped range, no provider is asked
\* for a day before the clamped start, and a report carries the clamped
\* start_date.
C17_ClampsLongSpan ==
    LongSpan =>
        /\ spc = "call" => calls = <<>> /\ fetched = <<>>
        /\ spc # "call" =>
              /\ start = end - max_range_days
              /\ fetched = <<<<end - max_range_days, end>>>>
        /\ \A i \in DOMAIN calls :
              calls[i].op \in {"download", "range"} => calls[i].start >= end - max_range_days
        /\ IsReport => report[1].start_date = end - max_range_days
        /\ IsError => calls # <<>>

\* a span of max_range_days + 1 days ended in a report
C17_Witness ==
    /\ LongSpan
    /\ IsReport
    /\ arg_start_date = 1
    /\ report[1].start_date = 2
    /\ calls # <<>>

\* C18: one invocation calls fetch_prices at most once, for the whole span
\* (from the start date, clamped if the span is long, to the end date); the
\* call is over before the first window return is computed, and no provider
\* is called during or after the event loop and the bootstrap loop.
C18_SingleFetch ==
    /\ [](/\ Len(fetched) <= 1
          /\ fetched # <<>> =>
                fetched[1] = <<IF LongSpan THEN end - max_range_days ELSE arg_start_date, end>>
          /\ (spc \in {"events", "groups"} \/ event_rows # <<>>) =>
                (pc \in {"done1", "done2", "done3"} /\ Len(fetched) = 1))
    /\ [][(spc \in {"events", "groups", "returned"}) =>
            (calls' = calls /\ fetched' = fetched /\ result' = result)]_vars

\* a report built from several observations after one fetch_prices call that
\* needed more than one provider call
C18_Witness ==
    /\ IsReport
    /\ Len(fetched) = 1
    /\ Len(calls) >= 2
    /\ Len(report[1].events) >= 2

\* the anchor date d lies between the first and the last date of the series
InSeriesRange(d) == SetMin(SeriesDates) <= d /\ d <= SetMax(SeriesDates)

\* the entries of an events list for one event date of a holiday and one window
ObservationsOf(evs, h, d, w) ==
    {i \in DOMAIN evs :
        evs[i].holiday = h /\ evs[i].event_date = d /\ evs[i].window = WindowLabel(w)}

\* C19: the events list of a report has exactly one observation (missing or
\* not) for every holiday, anchor date and window whose anchor date lies
\* between the first and the last date of the fetched series, and none for an
\* anchor date outside; anchors that are skipped do not turn the result into
\* an error when other anchors are in range.
C19_EventsInRange ==
    (spc = "returned" /\ pc \in {"done1", "done2", "done3"}) =>
        /\ IsReport =>
              /\ \A j \in DOMAIN EventPairs(holidays), k \in DOMAIN windows :
                    LET e == EventPairs(holidays)[j]
                    IN  InSeriesRange(e.d) =>
                          Cardinality(ObservationsOf(report[1].events, e.holiday, e.d,
                                                     windows[k])) = 1
              /\ \A i \in DOMAIN report[1].events :
                    InSeriesRange(report[1].events[i].event_date)
        /\ (\E j \in DOMAIN EventPairs(holidays) : InSeriesRange(EventPairs(holidays)[j].d))
              => IsReport

\* no anchor date of the holidays lies within the range of the series
NoAnchorInRange ==
    \A j \in DOMAIN EventPairs(holidays) : ~InSeriesRange(EventPairs(holidays)[j].d)

\* C20: when fetch_prices succeeded and no anchor date falls within the range
\* of the fetched series, run_event_study returns a top-level error, not a
\* report with an empty summary and an empty events list.
C20_NoEventsIsError ==
    (spc = "returned" /\ pc \in {"done1", "done2", "done3"} /\ NoAnchorInRange) =>
        /\ IsError
        /\ report[1] = [error |-> "No events found in the specified date range"]

\* two holidays, every date before or after the series: the error came back
C20_Witness ==
    /\ spc = "returned"
    /\ pc \in {"done1", "done2", "done3"}
    /\ NoAnchorInRange
    /\ Len(holidays) = 2
    /\ Len(Frame) >= 2
    /\ report[1] = [error |-> "No events found in the specified date range"]

\* the std of a summary record is zero
StdIsZero(rec) == rec.std # None /\ rec.std[1].of.val[1] = 0

\* C21: in every summary record an undefined statistic is None and never a
\* number: std and t_stat are None when count <= 1, and t_stat is None when
\* std is 0; run_event_study does not raise on such a group.
C21_UndefinedIsMissing ==
    IsReport =>
        \A i \in DOMAIN report[1].summary :
            LET rec == report[1].summary[i]
            IN  /\ rec.count <= 1 => rec.std = None /\ rec.t_stat = None
                /\ StdIsZero(rec) => rec.t_stat = None

-----------------------------------------------------------------------------
(* run_event_study when the primary provider serves a date twice: yfinance   *)
(* gives no guarantee that the index of a frame is unique, and fetch_prices  *)
(* passes the frame on as it came                                            *)

\* a frame whose last row is served twice
RepeatLast(df) == Append(df, df[Len(df)])

\* Method 2 when yf.download returns a frame that repeats its last date
Method2DownloadRepeated ==
    /\ pc = "m2"
    /\ \E cols \in {"Adj Close", "Close"} :
        LET df == HistRows(market, start, end - 1)
            log == LogCall([op |-> "download", start |-> start, end |-> end])
        IN  /\ df # <<>>
            /\ calls' = log
            /\ Return(FrameOfRows(RepeatLast(df), cols), "done2")
    /\ UNCHANGED <<inputs, callerVars, studyVars, report, windowVars, bootVars>>

RepeatedNext == fetch_prices \/ Method2DownloadRepeated \/ run_event_study

SpecRepeated == StudyInit /\ [][RepeatedNext]_vars

\* some event date passes the range test of the event loop
SomeEventKept ==
    \E j \in DOMAIN EventPairs(holidays) : InDataRange(Frame, EventPairs(holidays)[j].d)

\* C22: an event whose window return cannot be computed (anchor or window
\* edge not alignable, zero close, degenerate sample, a date that occurs twice
\* in the series) gives a missing observation and never an error: when some
\* event date passes the range test, the result is a complete report that
\* holds one observation per window for every event date that passes it.
C22_BadEventIsMissing ==
    (spc = "returned" /\ pc \in {"done1", "done2", "done3"} /\ SomeEventKept) =>
        /\ IsReport
        /\ \A j \in DOMAIN EventPairs(holidays), k \in DOMAIN windows :
              LET e == EventPairs(holidays)[j]
              IN  InDataRange(Frame, e.d) =>
                    ObservationsOf(report[1].events, e.holiday, e.d, windows[k]) # {}

-----------------------------------------------------------------------------
(* Two invocations of run_event_study on the module-level event_study_service, *)
(* interleaved by the thread scheduler.  An invocation owns its arguments and  *)
(* its locals (those of fetch_prices included); the threads share the service  *)
(* instance, whose attributes nothing writes after __init__, the class         *)
(* constants HOLIDAYS and DEFAULT_WINDOWS (both invocations take the defaults, *)
(* so holidays and windows are one object for the two), and the providers.     *)

\* the arguments and locals of the running invocation
Locals ==
    [ticker |-> ticker, start |-> start, end |-> end, pc |-> pc, attempt |-> attempt,
     current_start |-> current_start, all_prices |-> all_prices, calls |-> calls,
     result |-> result, raised |-> raised, report |-> report,
     arg_start_date |-> arg_start_date, arg_end_date |-> arg_end_date, spc |-> spc,
     fetched |-> fetched, ei |-> ei, event_rows |-> event_rows, pvals |-> pvals]

\* Resume with all_prices kept on the service instance: one list for both threads
ResumeSharedPrices(s) ==
    /\ ticker' = s.ticker
    /\ start' = s.start
    /\ end' = s.end
    /\ pc' = s.pc
    /\ attempt' = s.attempt
    /\ current_start' = s.current_start
    /\ all_prices' = all_prices
    /\ calls' = s.calls
    /\ result' = s.result
    /\ raised' = s.raised
    /\ report' = s.report
    /\ arg_start_date' = s.arg_start_date
    /\ arg_end_date' = s.arg_end_date
    /\ spc' = s.spc
    /\ fetched' = s.fetched
    /\ ei' = s.ei
    /\ event_rows' = s.event_rows
    /\ pvals' = s.pvals

\* the invocation with the locals s goes on where it was suspended
Resume(s) ==
    /\ ticker' = s.ticker
    /\ start' = s.start
    /\ end' = s.end
    /\ pc' = s.pc
    /\ attempt' = s.attempt
    /\ current_start' = s.current_start
    /\ all_prices' = s.all_prices
    /\ calls' = s.calls
    /\ result' = s.result
    /\ raised' = s.raised
    /\ report' = s.report
    /\ arg_start_date' = s.arg_start_date
    /\ arg_end_date' = s.arg_end_date
    /\ spc' = s.spc
    /\ fetched' = s.fetched
    /\ ei' = s.ei
    /\ event_rows' = s.event_rows
    /\ pvals' = s.pvals

\* the scheduler takes the processor from one thread and gives it to the
\* other, which has not returned yet
Yield ==
    /\ suspended # None
    /\ suspended[1].spc # "returned"
    /\ Resume(suspended[1])
    /\ suspended' = Some(Locals)
    /\ running' = 3 - running
    /\ UNCHANGED <<today, market, use_alpha_vantage, holidays, windows, windowVars,
                   bootVars, routeVars>>

\* the requests of the two threads, on the same day: two short ranges and one
\* of more than a year
ConcurrentRequests ==
    {[start_date |-> 1, end_date |-> Some(CalendarDays)],
     [start_date |-> 2, end_date |-> None],
     [start_date |-> CalendarDays - chunk_size - 1, end_date |-> Some(CalendarDays)]}

ConcurrentMarkets ==
    {m \in StudyMarkets : DOMAIN m \in {{}, {1, 2, CalendarDays}}}

\* the locals of an invocation that has just been called with the request req
Called(req) ==
    [ticker |-> "spy", start |-> req.start_date,
     end |-> IF req.end_date = None THEN today ELSE req.end_date[1],
     pc |-> "idle", attempt |-> 0, current_start |-> None, all_prices |-> <<>>,
     calls |-> <<>>, result |-> None, raised |-> None, report |-> None,
     arg_start_date |-> req.start_date, arg_end_date |-> req.end_date, spc |-> "call",
     fetched |-> <<>>, ei |-> 0, event_rows |-> <<>>, pvals |-> <<>>]

ConcurrentInit ==
    /\ today = CalendarDays
    /\ market \in ConcurrentMarkets
    /\ use_alpha_vantage = TRUE
    /\ holidays = <<[name |-> "Yom_Kippur", dates |-> <<1, 2, CalendarDays>>]>>
    /\ windows = <<<<-5, 5>>, <<-1, 1>>, <<0, 1>>>>
    /\ \E req \in ConcurrentRequests :
        /\ ticker = Called(req).ticker
        /\ start = Called(req).start
        /\ end = Called(req).end
        /\ arg_start_date = Called(req).arg_start_date
        /\ arg_end_date = Called(req).arg_end_date
    /\ pc = "idle"
    /\ attempt = 0
    /\ current_start = None
    /\ all_prices = <<>>
    /\ calls = <<>>
    /\ result = None
    /\ raised = None
    /\ report = None
    /\ spc = "call"
    /\ fetched = <<>>
    /\ ei = 0
    /\ event_rows = <<>>
    /\ pvals = <<>>
    /\ \E req \in ConcurrentRequests :
        /\ req.start_date <= start
        /\ suspended = Some(Called(req))
    /\ running = 1
    /\ WindowIdle
    /\ BootIdle
    /\ windows_param = <<>>
    /\ rpc = "idle"
    /\ response = <<>>

ConcurrentNext == fetch_prices \/ run_event_study \/ Yield

SpecConcurrent == ConcurrentInit /\ [][ConcurrentNext]_vars

\* the lists Method 3 can collect from current_start = cs on
RECURSIVE AloneChunks(_)
AloneChunks(cs) ==
    IF ~(cs < end) THEN {<<>>}
    ELSE LET ce == Min(cs + chunk_size, end)
         IN  {ChunkRows(get_historical_price_range(market, today, use_alpha_vantage,
                                                   cs, ce, alpha_ok, yf)) \o rest :
                 alpha_ok \in BOOLEAN, yf \in {"ok", "empty", "raise"},
                 rest \in AloneChunks(ce + 1)}

\* the frames fetch_prices(ticker, start, end) can return to an invocation
\* that runs alone
AloneFrames ==
    {FetchedFrame(market, today, start, end, how) :
        how \in {"period", "download Adj Close", "download Close"}}
    \cup {FrameOfPrices(ap) : ap \in AloneChunks(start)}

\* the rows list an invocation that runs alone builds from the frame df
\* (<<"throws">> when an event raises)
RECURSIVE AloneRowsFrom(_, _)
AloneRowsFrom(df, i) ==
    IF i > Len(EventPairs(holidays)) THEN <<>>
    ELSE LET e == EventPairs(holidays)[i]
             new == IF InDataRange(df, e.d)
                    THEN WindowRows(df, e.holiday, e.d, windows)
                    ELSE <<>>
             rest == AloneRowsFrom(df, i + 1)
         IN  IF Throws(new) \/ rest = <<"throws">> THEN <<"throws">> ELSE new \o rest

\* what an invocation that runs alone returns after fetch_prices gave it the
\* frame df, its p-values being pv
AloneReport(df, pv) ==
    LET rs == AloneRowsFrom(df, 1)
    IN  IF df = <<>>
        THEN [error |-> <<"No price data available", ticker, start, end>>]
        ELSE IF rs = <<"throws">> THEN Failed("event_window_return")
        ELSE IF rs = <<>> THEN [error |-> "No events found in the specified date range"]
        ELSE [symbol |-> Upper(ticker), start_date |-> start, end_date |-> end,
              summary |-> SummaryList(rs, pv), events |-> EventsList(rs),
              timestamp |-> today]

\* C23: invocations of run_event_study that run concurrently do not
\* interfere: under every interleaving, what an invocation returns (its events
\* and each summary record's count, mean, std and t_stat) is what it returns
\* when it runs alone on the same provider answers.
C23_NoInterference ==
    spc = "returned" =>
        IF start > end
        THEN report = Some([error |-> <<"Invalid date range: start_date must be before end_date",
                                        start, end>>])
        ELSE IF pc = "reported" THEN report = Some(Failed(NoDataError))
        ELSE /\ pc \in Done
             /\ Frame \in AloneFrames
             /\ report = Some(AloneReport(Frame, pvals))

\* an invocation has returned a report while the other one, with another
\* request, is suspended in the middle of its event loop
C23_Witness ==
    /\ IsReport
    /\ suspended # None
    /\ suspended[1].spc = "events"
    /\ suspended[1].ei > 0
    /\ suspended[1].start # start

-----------------------------------------------------------------------------
(* The route GET /api/stock/event-study/{symbol} (backend/api/stock.py,      *)
(* get_event_study).  The windows query parameter is a string, held as the   *)
(* sequence of its characters; the response is what the handler returns or   *)
(* the HTTPException it raises.                                              *)

MaxChars == 5

\* the characters a windows parameter is written with
Chars == {"1", "-", ":", ",", " ", "x"}

\* str.split(sep): the pieces of s between the occurrences of sep
RECURSIVE Split(_, _)
Split(s, sep) ==
    IF \A i \in DOMAIN s : s[i] # sep THEN <<s>>
    ELSE LET k == CHOOSE i \in DOMAIN s : s[i] = sep /\ \A j \in 1 .. (i - 1) : s[j] # sep
         IN  <<SubSeq(s, 1, k - 1)>> \o Split(SubSeq(s, k + 1, Len(s)), sep)

\* str.strip()
RECURSIVE Strip(_)
Strip(s) ==
    IF s = <<>> THEN s
    ELSE IF s[1] = " " THEN Strip(Tail(s))
    ELSE IF s[Len(s)] = " " THEN Strip(SubSeq(s, 1, Len(s) - 1))
    ELSE s

\* the value of a string of decimal digits read left to right from acc, or
\* None at the first character that is not a digit
RECURSIVE Digits(_, _)
Digits(s, acc) ==
    IF s = <<>> THEN Some(acc)
    ELSE IF s[1] = "1" THEN Digits(Tail(s), 10 * acc + 1)
    ELSE None

\* int(s): surrounding whitespace dropped, an optional sign, one digit at
\* least; None stands for the ValueError
IntOf(s) ==
    LET t == Strip(s)
        neg == t # <<>> /\ t[1] = "-"
        ds == IF neg THEN Tail(t) ELSE t
    IN  IF ds = <<>> \/ Digits(ds, 0) = None THEN None
        ELSE Some(IF neg THEN 0 - Digits(ds, 0)[1] ELSE Digits(ds, 0)[1])

\* the list parsed from the items ws, or <<"ValueError">>
RECURSIVE ParseItems(_)

\* ParseItems leaving out the items it cannot read
ParseItemsLenient(ws) ==
    IF ws = <<>> THEN <<>>
    ELSE LET parts == Split(Strip(ws[1]), ":")
             rest == ParseItems(Tail(ws))
         IN  IF Len(parts) # 2 \/ IntOf(parts[1]) = None \/ IntOf(parts[2]) = None
             THEN rest
             ELSE <<<<IntOf(parts[1])[1], IntOf(parts[2])[1]>>>> \o rest

\* the loop over windows.split(','): two parts per item, int() of each
ParseItems(ws) ==
    IF ws = <<>> THEN <<>>
    ELSE LET parts == Split(Strip(ws[1]), ":")
             rest == ParseItems(Tail(ws))
         IN  IF Len(parts) # 2 \/ IntOf(parts[1]) = None \/ IntOf(parts[2]) = None
             THEN <<"ValueError">>
             ELSE IF rest = <<"ValueError">> THEN rest
             ELSE <<<<IntOf(parts[1])[1], IntOf(parts[2])[1]>>>> \o rest

\* parsed_windows for a windows parameter that is not empty
ParseWindows(s) == ParseItems(Split(s, ","))

\* the handler up to the call of run_event_study: HTTP 400 for a windows
\* parameter that does not parse, else the call with parsed_windows (None,
\* that is DEFAULT_WINDOWS, without the parameter)
RouteParse ==
    /\ rpc = "request"
    /\ IF windows_param # <<>> /\ ParseWindows(windows_param) = <<"ValueError">>
       THEN /\ response' = Some([status |-> 400, detail |-> "Invalid windows format"])
            /\ rpc' = "responded"
            /\ UNCHANGED <<windows, spc>>
       ELSE /\ windows' = IF windows_param = <<>> THEN <<<<-5, 5>>, <<-1, 1>>, <<0, 1>>>>
                          ELSE ParseWindows(windows_param)
            /\ spc' = "call"
            /\ rpc' = "called"
            /\ UNCHANGED response
    /\ UNCHANGED <<inputs, fetchVars, windowVars, bootVars, arg_start_date, arg_end_date,
                   holidays, fetched, ei, event_rows, pvals, windows_param, threadVars>>

\* run_event_study returned (it never raises): the report with the research
\* insights, or the research insights with the error text; HTTP 200 in both
RouteRespond ==
    /\ rpc = "called"
    /\ spc = "returned"
    /\ response' =
         IF "error" \notin DOMAIN report[1]
         THEN Some([status |-> 200, summary |-> Some(report[1].summary),
                    events |-> Some(report[1].events), error |-> None])
         ELSE Some([status |-> 200, summary |-> None, events |-> None,
                    error |-> Some(<<"Live data unavailable: ", report[1].error>>)])
    /\ rpc' = "responded"
    /\ UNCHANGED <<inputs, fetchVars, windowVars, bootVars, studyVars, windows_param,
                   threadVars>>

get_event_study == RouteParse \/ RouteRespond

\* the windows parameters of the requests; the empty one is no parameter
WindowsParams == SeqsUpTo(Chars, MaxChars)

\* the requests: a short range and one of more than a year, both to today
RouteRequests == {1, CalendarDays - chunk_size - 1}

\* a symbol without any price data and one with bars
RouteMarkets == {m \in StudyMarkets : DOMAIN m \in {{}, {1, 2, CalendarDays}}}

RouteInit ==
    /\ ticker = "spy"
    /\ today = CalendarDays
    /\ start \in RouteRequests
    /\ end = today
    /\ arg_start_date = start
    /\ arg_end_date = None
    /\ market \in RouteMarkets
    /\ use_alpha_vantage = TRUE
    /\ holidays = <<[name |-> "Yom_Kippur", dates |-> <<1, 2, CalendarDays>>]>>
    /\ windows = <<>>
    /\ pc = "idle"
    /\ attempt = 0
    /\ current_start = None
    /\ all_prices = <<>>
    /\ calls = <<>>
    /\ result = None
    /\ raised = None
    /\ report = None
    /\ WindowIdle
    /\ BootIdle
    /\ spc = "idle"
    /\ fetched = <<>>
    /\ ei = 0
    /\ event_rows = <<>>
    /\ pvals = <<>>
    /\ windows_param \in WindowsParams
    /\ rpc = "request"
    /\ response = None
    /\ suspended = None
    /\ running = 1

RouteNext == get_event_study \/ fetch_prices \/ run_event_study

SpecRoute == RouteInit /\ [][RouteNext]_vars

\* C24: GET /api/stock/event-study/{symbol} for a symbol that has no price
\* data, the windows parameter absent or well-formed, responds with status
\* 404 or 500 and never with 200.
C24_NoDataIsNotOk ==
    (rpc = "responded" /\ spc = "returned" /\ DOMAIN market = {}) =>
        response[1].status \in {404, 500}

\* a string of one digit at least, with an optional sign in front
IsInteger(s) ==
    LET t == Strip(s)
        ds == IF t # <<>> /\ t[1] = "-" THEN Tail(t) ELSE t
    IN  ds # <<>> /\ \A i \in DOMAIN ds : ds[i] = "1"

\* an item that is two integers with one colon between them
TwoIntegers(w) ==
    \E k \in DOMAIN w :
        /\ w[k] = ":"
        /\ IsInteger(SubSeq(w, 1, k - 1))
        /\ IsInteger(SubSeq(w, k + 1, Len(w)))

\* some comma-separated item of s is not two colon-separated integers
Malformed(s) == \E i \in DOMAIN Split(s, ",") : ~TwoIntegers(Split(s, ",")[i])

\* C25: a request whose windows parameter is not empty and has a
\* comma-separated item that is not exactly two colon-separated integers is
\* answered with HTTP 400, and run_event_study is never invoked for it.
C25_BadWindowsIs400 ==
    (windows_param # <<>> /\ Malformed(windows_param)) =>
        /\ spc = "idle"
        /\ fetched = <<>>
        /\ calls = <<>>
        /\ rpc = "responded" => response = Some([status |-> 400, detail |-> "Invalid windows format"])
        /\ rpc \in {"request", "responded"}

\* a well-formed item followed by one that is not: answered with 400
C25_Witness ==
    /\ windows_param = <<"1", ":", "1", ",", "x">>
    /\ rpc = "responded"
    /\ response[1].status = 400

-----------------------------------------------------------------------------
(* Properties of the strategies of fetch_prices *)

\* the positions of the log that hold a call of yf.download / a sleep
Downloads == {i \in DOMAIN calls : calls[i].op = "download"}
Sleeps == {i \in DOMAIN calls : calls[i].op = "sleep"}

\* C26: within one fetch_prices call the exact-range strategy calls the
\* primary provider at most twice; a second attempt comes only after a first
\* one that returned empty or raised, with exactly one sleep of the fixed
\* length between the two, and there is no sleep after a successful attempt or
\* after the second attempt.
C26_OneRetryAfterOneSleep ==
    /\ Cardinality(Downloads) <= 2
    /\ Cardinality(Sleeps) <= 1
    /\ \A i \in Sleeps :
          /\ calls[i].seconds = RetrySleep
          /\ i - 1 \in Downloads
          /\ SetMin(Downloads) = i - 1
    /\ Cardinality(Downloads) = 2 =>
          \E i \in Sleeps : Downloads = {i - 1, i + 1}
    /\ pc = "done2" => calls[Len(calls)].op = "download"

\* the chunks Method 3 has requested so far
Ranges == SelectSeq(calls, LAMBDA c : c.op = "range")

\* C27: in the chunked strategy a chunk that fails (an error result, an empty
\* result) does not discard the chunks that succeeded: the bars collected are
\* kept from chunk to chunk, the frame returned holds all of them, and the
\* strategy succeeds whenever a chunk returned bars.
C27_PartialSuccess ==
    /\ [][(pc = "m3" /\ pc' = "m3") =>
            (/\ Len(all_prices') >= Len(all_prices)
             /\ SubSeq(all_prices', 1, Len(all_prices)) = all_prices)]_vars
    /\ [](pc = "done3" =>
            /\ Len(Frame) = Len(all_prices)
            /\ \A i \in DOMAIN all_prices :
                  Frame[i].date = all_prices[i].date /\ Frame[i].price = all_prices[i].price)
    /\ []((pc = "raised" /\ Ranges # <<>>) => all_prices = <<>>)

\* two chunks were requested, the second brought nothing although the market
\* traded in it, and the bars of the first are returned
C27_Witness ==
    /\ pc = "done3"
    /\ Len(Ranges) = 2
    /\ \E d \in DOMAIN market : Ranges[2].start <= d /\ d <= Ranges[2].end
    /\ Frame # <<>>
    /\ \A i \in DOMAIN Frame : Frame[i].date <= Ranges[1].end

\* C28: for every requested range start <= end the chunks requested from the
\* secondary provider are pairwise disjoint, in ascending date order, each of
\* at most 365 days, and together they cover every calendar date of
\* [start, end], the end date included (also for start = end and for a span of
\* 366 days).
C28_ChunksCover ==
    (pc \in {"done3", "raised"} /\ start <= end) =>
        /\ \A i \in DOMAIN Ranges :
              /\ Ranges[i].start <= Ranges[i].end
              /\ Ranges[i].end - Ranges[i].start <= chunk_size
        /\ \A i, j \in DOMAIN Ranges : i < j => Ranges[i].end < Ranges[j].start
        /\ \A d \in start .. end :
              \E i \in DOMAIN Ranges : Ranges[i].start <= d /\ d <= Ranges[i].end

\* C29: the price in the series fetch_prices returns is the bar's close in
\* every strategy (so two strategies given the same bars yield the same price
\* column), and the adjusted close is never used in its place.
C29_PriceIsClose ==
    pc \in Done =>
        \A i \in DOMAIN Frame : Frame[i].price = market[Frame[i].date].close

\* C30: the prices list get_historical_price_range returns is ordered oldest
\* first, whether the bars came from Alpha Vantage or from yfinance: after the
\* first chunk of Method 3, all_prices (the list as returned, entry by entry)
\* is ascending by date.
C30_OldestFirst ==
    (pc = "m3" /\ Len(Ranges) = 1) =>
        \A i, j \in DOMAIN all_prices : i < j => all_prices[i].date < all_prices[j].date

====
